---- MODULE Spec2Model ----
(***************************************************************************)
(* BitTube (libs/gui/BitTube.cpp): a SOCK_SEQPACKET socket pair carrying   *)
(* batches of fixed-size records, and the transfer of its receive          *)
(* descriptor through a Parcel.                                            *)
(*                                                                         *)
(* The kernel side is modelled by a descriptor table (fds), the queue of   *)
(* datagrams travelling from the send end to the receive end (queue) and   *)
(* the send-buffer size set by setsockopt (sockbuf).  Every BitTube method *)
(* is one action.  nsent, delivered and last are history variables: they   *)
(* record what the callers saw and never influence the program.            *)
(*                                                                         *)
(* SpecThreads runs write() and read() step by step beside the other       *)
(* methods (thr), and SpecLabels applies the lookup functions of           *)
(* include/input/InputEventLabels.h to a label table (lbl).                *)
(***************************************************************************)
EXTENDS Integers, Sequences, FiniteSets, TLC

\* ------------------------------------------------------------ bounds
MaxFd == 4        \* descriptor numbers 0 .. MaxFd-1 (the process's fd limit)
MaxCount == 2     \* callers pass count in 0 .. MaxCount
MaxObjSize == 2   \* callers pass objSize in 1 .. MaxObjSize
MaxBuf == 3       \* BitTube(bufsize) is called with bufsize = MaxBuf
MaxSends == 2     \* at most MaxSends datagrams are accepted by the kernel
MaxIntr == 2      \* at most MaxIntr signals interrupt one write() or read()
TableLen == 3     \* entries of a label table before its terminator
MaxVal == 4       \* the values of a label table are in 0 .. MaxVal

\* ------------------------------------------------------------ constants
NO_ERROR == 0
EINTR == 4
EBADF == 9
EAGAIN == 11
EINVAL == 22
EMFILE == 24
EPIPE == 32
EMSGSIZE == 90
BAD_TYPE == -2147483647

\* The BitTube objects: "A" is built by BitTube(bufsize), the others from a Parcel.
Tubes == {"A", "B", "C"}
\* The objects that Spec lets come to life (SpecOwners lets all of Tubes).
Chans == {"A", "B"}
FdNums == 0 .. (MaxFd - 1)
BufSizes == {MaxBuf}
Counts == 0 .. MaxCount
ObjSizes == 1 .. MaxObjSize

VARIABLES
    chan,       \* chan[c]: the BitTube object c: state, mSendFd, mReceiveFd
    parcel,     \* the Parcel: the descriptor it owns, or -1
    fds,        \* kernel: fds[n] is "free", "rx" (sockets[0]) or "tx" (sockets[1])
    queue,      \* kernel: datagrams queued at the receive end, oldest first
    sockbuf,    \* kernel: SO_SNDBUF of the send end
    aborted,    \* LOG_ALWAYS_FATAL_IF fired: the process is gone
    nsent,      \* history: number of datagrams the kernel accepted
    delivered,  \* history: number of datagrams the kernel handed to a recv
    last,       \* history: the last call, its arguments and what it returned
    thr,        \* the thread inside write() or read(): where it is, what it loaded
    lbl         \* InputEventLabels.h: a label table, the last lookup and its result

vars == <<chan, parcel, fds, queue, sockbuf, aborted, nsent, delivered, last,
          thr, lbl>>

\* last: the method called, what it returned, the condition the kernel reported
\* to it, and for a datagram it moved: its number, the bytes the receiver's
\* buffer got, the bytes the sender's buffer held, and whether the sender had
\* given its receive descriptor away when it sent.
NoCall == [op |-> "none", ret |-> 0, cond |-> "none", id |-> 0, buf |-> <<>>,
           orig |-> <<>>, xfer |-> FALSE]

\* No thread is inside write() or read().
NoThread == [pc |-> "idle", op |-> "none", c |-> "A", size |-> 0, fd |-> -1, intr |-> 0]

\* The terminator of a label table: { NULL, 0 }
NULL == "NULL"
Sentinel == [literal |-> NULL, value |-> 0]

\* No lookup was made in the table t.
NoLookup(t) == [tbl |-> t, fn |-> "none", name |-> NULL, code |-> 0,
                rname |-> NULL, rcode |-> 0]

\* No BitTube exists and nothing was called.
InitTube ==
    /\ chan = [c \in Tubes |-> [state |-> "none", mSendFd |-> -1, mReceiveFd |-> -1]]
    /\ parcel = -1
    /\ fds = [n \in FdNums |-> "free"]
    /\ queue = <<>>
    /\ sockbuf = 0
    /\ aborted = FALSE
    /\ nsent = 0
    /\ delivered = 0
    /\ last = NoCall
    /\ thr = NoThread

Init == InitTube /\ lbl = NoLookup(<<Sentinel>>)

\* ------------------------------------------------------------ kernel
Min(a, b) == IF a < b THEN a ELSE b

\* The caller's buffer for its n-th datagram: size bytes, different for each n.
Payload(n, size) == [i \in 1 .. size |-> (16 * n + i) % 256]

FreeFds(t) == {n \in FdNums : t[n] = "free"}

LowestFree(t) == CHOOSE n \in FreeFds(t) : \A m \in FreeFds(t) : n <= m

IsOpen(t, fd) == fd \in FdNums /\ t[fd] # "free"

RxOpen(t) == \E n \in FdNums : t[n] = "rx"

TxOpen(t) == \E n \in FdNums : t[n] = "tx"

\* close(fd): the descriptor number becomes free; closing what is not open
\* changes nothing (EBADF).
Close(t, fd) == IF IsOpen(t, fd) THEN [t EXCEPT ![fd] = "free"] ELSE t

\* Mutant of QueueAfter: the queue is flushed by every close.
QueueAfter_Flush(t, q) == <<>>

\* The datagrams still queued once the descriptor table is t: they are dropped
\* with the last descriptor of the receive end.
QueueAfter(t, q) == IF RxOpen(t) THEN q ELSE <<>>

RECURSIVE QueuedBytes(_)
QueuedBytes(q) == IF q = <<>> THEN 0 ELSE Len(Head(q).data) + QueuedBytes(Tail(q))

\* dup(fd) with the table t: the new descriptor number, or -1 and errno.
\* room is FALSE when the process has reached its descriptor limit.
Dup(t, fd, room) ==
    IF ~IsOpen(t, fd) THEN [fd |-> -1, errno |-> EBADF]
    ELSE IF ~room \/ FreeFds(t) = {} THEN [fd |-> -1, errno |-> EMFILE]
    ELSE [fd |-> LowestFree(t), errno |-> 0]

\* ::send(fd, vaddr, size, MSG_DONTWAIT | MSG_NOSIGNAL) on a SOCK_SEQPACKET socket:
\* the whole datagram is queued, or nothing is.
KSend(fd, size) ==
    IF ~(IsOpen(fds, fd) /\ fds[fd] = "tx") THEN [len |-> -1, errno |-> EBADF]
    ELSE IF ~RxOpen(fds) THEN [len |-> -1, errno |-> EPIPE]
    ELSE IF size > sockbuf THEN [len |-> -1, errno |-> EMSGSIZE]
    ELSE IF QueuedBytes(queue) + size > sockbuf THEN [len |-> -1, errno |-> EAGAIN]
    ELSE [len |-> size, errno |-> 0]

\* Mutant of KRecv: the datagram is not cut to the size of the caller's buffer.
KRecv_NoCut(fd, size) ==
    IF ~(IsOpen(fds, fd) /\ fds[fd] = "rx")
    THEN [len |-> -1, errno |-> EBADF, cond |-> "error", data |-> <<>>,
          msg |-> <<>>, rest |-> queue]
    ELSE IF queue # <<>>
    THEN [len |-> Len(Head(queue).data), errno |-> 0, cond |-> "data",
          data |-> Head(queue).data,
          msg |-> <<Head(queue)>>, rest |-> Tail(queue)]
    ELSE IF TxOpen(fds)
    THEN [len |-> -1, errno |-> EAGAIN, cond |-> "wouldblock", data |-> <<>>,
          msg |-> <<>>, rest |-> queue]
    ELSE [len |-> 0, errno |-> 0, cond |-> "eof", data |-> <<>>,
          msg |-> <<>>, rest |-> queue]

\* Mutant of KRecv: the newest datagram is handed out instead of the oldest.
KRecv_Newest(fd, size) ==
    IF ~(IsOpen(fds, fd) /\ fds[fd] = "rx")
    THEN [len |-> -1, errno |-> EBADF, cond |-> "error", data |-> <<>>,
          msg |-> <<>>, rest |-> queue]
    ELSE IF queue # <<>>
    THEN [len |-> Min(Len(queue[Len(queue)].data), size), errno |-> 0, cond |-> "data",
          data |-> SubSeq(queue[Len(queue)].data, 1,
                          Min(Len(queue[Len(queue)].data), size)),
          msg |-> <<queue[Len(queue)]>>, rest |-> SubSeq(queue, 1, Len(queue) - 1)]
    ELSE IF TxOpen(fds)
    THEN [len |-> -1, errno |-> EAGAIN, cond |-> "wouldblock", data |-> <<>>,
          msg |-> <<>>, rest |-> queue]
    ELSE [len |-> 0, errno |-> 0, cond |-> "eof", data |-> <<>>,
          msg |-> <<>>, rest |-> queue]

\* Mutant of KRecv: the datagram is read but left in the queue (MSG_PEEK).
KRecv_Peek(fd, size) ==
    IF ~(IsOpen(fds, fd) /\ fds[fd] = "rx")
    THEN [len |-> -1, errno |-> EBADF, cond |-> "error", data |-> <<>>,
          msg |-> <<>>, rest |-> queue]
    ELSE IF queue # <<>>
    THEN [len |-> Min(Len(Head(queue).data), size), errno |-> 0, cond |-> "data",
          data |-> SubSeq(Head(queue).data, 1, Min(Len(Head(queue).data), size)),
          msg |-> <<Head(queue)>>, rest |-> queue]
    ELSE IF TxOpen(fds)
    THEN [len |-> -1, errno |-> EAGAIN, cond |-> "wouldblock", data |-> <<>>,
          msg |-> <<>>, rest |-> queue]
    ELSE [len |-> 0, errno |-> 0, cond |-> "eof", data |-> <<>>,
          msg |-> <<>>, rest |-> queue]

\* ::recv(fd, vaddr, size, MSG_DONTWAIT): the oldest datagram, cut to size bytes
\* (the rest of it is discarded); EAGAIN when none is queued and the send end is
\* open; 0 when none is queued and the send end is closed. msg is the datagram
\* taken and rest the queue it leaves.
KRecv(fd, size) ==
    IF ~(IsOpen(fds, fd) /\ fds[fd] = "rx")
    THEN [len |-> -1, errno |-> EBADF, cond |-> "error", data |-> <<>>,
          msg |-> <<>>, rest |-> queue]
    ELSE IF queue # <<>>
    THEN [len |-> Min(Len(Head(queue).data), size), errno |-> 0, cond |-> "data",
          data |-> SubSeq(Head(queue).data, 1, Min(Len(Head(queue).data), size)),
          msg |-> <<Head(queue)>>, rest |-> Tail(queue)]
    ELSE IF TxOpen(fds)
    THEN [len |-> -1, errno |-> EAGAIN, cond |-> "wouldblock", data |-> <<>>,
          msg |-> <<>>, rest |-> queue]
    ELSE [len |-> 0, errno |-> 0, cond |-> "eof", data |-> <<>>,
          msg |-> <<>>, rest |-> queue]

\* ------------------------------------------------------------ Parcel
\* Parcel::writeDupFileDescriptor(fd): the parcel takes a duplicate of fd, or
\* reports the failure of dup and takes nothing.
ParcelWriteDupFd(t, fd, room) ==
    LET d == Dup(t, fd, room)
    IN  IF d.fd >= 0
        THEN [status |-> NO_ERROR, held |-> d.fd, fds |-> [t EXCEPT ![d.fd] = t[fd]]]
        ELSE [status |-> -d.errno, held |-> -1, fds |-> t]

\* Parcel::readFileDescriptor(): the descriptor the parcel holds, BAD_TYPE when
\* it holds none.
ParcelReadFd(p) == IF p >= 0 THEN p ELSE BAD_TYPE

\* ------------------------------------------------------------ BitTube
\* Mutant of InitCheck: the send descriptor is tested instead of the receive one.
InitCheck_SendFd(c) == IF chan[c].mSendFd < 0 THEN chan[c].mSendFd ELSE NO_ERROR

\* initCheck()
InitCheck(c) == IF chan[c].mReceiveFd < 0 THEN chan[c].mReceiveFd ELSE NO_ERROR

\* Mutant of WriteRet: would-block is swallowed as 0, the way read() does.
WriteRet_Swallow(k) ==
    LET err == IF k.len < 0 THEN k.errno ELSE 0
    IN  IF err = EAGAIN THEN 0
        ELSE IF err = 0 THEN k.len ELSE -err

\* write(): what is returned for the result k of ::send
WriteRet(k) ==
    LET err == IF k.len < 0 THEN k.errno ELSE 0
    IN  IF err = 0 THEN k.len ELSE -err

\* Mutant of ReadRet: would-block is returned as -EAGAIN, the way write() does.
ReadRet_NoAgain(k) ==
    LET err == IF k.len < 0 THEN k.errno ELSE 0
    IN  IF err = 0 THEN k.len ELSE -err

\* Mutant of ReadRet: every errno is swallowed as 0.
ReadRet_Quiet(k) == IF k.len < 0 THEN 0 ELSE k.len

\* read(): what is returned for the result k of ::recv
ReadRet(k) ==
    LET err == IF k.len < 0 THEN k.errno ELSE 0
    IN  IF err = EAGAIN THEN 0
        ELSE IF err = 0 THEN k.len ELSE -err

\* Mutant of Fatal: the check is compiled out.
Fatal_Never(size, objSize) == FALSE

\* LOG_ALWAYS_FATAL_IF((size >= 0) && (size % objSize), ...)
Fatal(size, objSize) == (size >= 0) /\ (size % objSize # 0)

\* Mutant of BatchRet: the byte count is returned instead of the record count.
BatchRet_Bytes(size, objSize) == size

\* Mutant of BatchRet: a negative size is divided like any other.
BatchRet_DivAll(size, objSize) == size \div objSize

\* return size < 0 ? size : size / objSize
BatchRet(size, objSize) == IF size < 0 THEN size ELSE size \div objSize

\* Mutant of Create: when socketpair fails errno is not stored.
Create_LosesErrno(bufsize, ok) ==
    /\ ~aborted
    /\ chan["A"].state = "none"
    /\ IF ok /\ Cardinality(FreeFds(fds)) >= 2
       THEN LET s0 == LowestFree(fds)
                s1 == LowestFree([fds EXCEPT ![s0] = "rx"])
            IN  /\ fds' = [fds EXCEPT ![s0] = "rx", ![s1] = "tx"]
                /\ sockbuf' = bufsize
                /\ chan' = [chan EXCEPT !["A"] =
                       [state |-> "live", mSendFd |-> s1, mReceiveFd |-> s0]]
       ELSE /\ chan' = [chan EXCEPT !["A"] =
                       [state |-> "live", mSendFd |-> -1, mReceiveFd |-> -1]]
            /\ UNCHANGED <<fds, sockbuf>>
    /\ last' = [NoCall EXCEPT !.op = "create"]
    /\ UNCHANGED <<parcel, queue, aborted, nsent, delivered, thr, lbl>>

\* BitTube(bufsize) and init(bufsize, bufsize). ok is FALSE when socketpair fails.
Create(bufsize, ok) ==
    /\ ~aborted
    /\ chan["A"].state = "none"
    /\ IF ok /\ Cardinality(FreeFds(fds)) >= 2
       THEN LET s0 == LowestFree(fds)
                s1 == LowestFree([fds EXCEPT ![s0] = "rx"])
            IN  /\ fds' = [fds EXCEPT ![s0] = "rx", ![s1] = "tx"]
                /\ sockbuf' = bufsize
                /\ chan' = [chan EXCEPT !["A"] =
                       [state |-> "live", mSendFd |-> s1, mReceiveFd |-> s0]]
       ELSE /\ chan' = [chan EXCEPT !["A"] =
                       [state |-> "live", mSendFd |-> -1, mReceiveFd |-> -EMFILE]]
            /\ UNCHANGED <<fds, sockbuf>>
    /\ last' = [NoCall EXCEPT !.op = "create"]
    /\ UNCHANGED <<parcel, queue, aborted, nsent, delivered, thr, lbl>>

\* Mutant of FromParcel: the parcel's descriptor is kept without dup.
FromParcel_NoDup(c, room) ==
    /\ ~aborted
    /\ chan[c].state = "none"
    /\ LET fd == ParcelReadFd(parcel)
           rfd == IF fd < 0 THEN -EBADF ELSE fd
       IN  /\ chan' = [chan EXCEPT ![c] =
                  [state |-> "live", mSendFd |-> -1, mReceiveFd |-> rfd]]
           /\ last' = [NoCall EXCEPT !.op = "fromParcel", !.ret = rfd]
    /\ UNCHANGED <<fds, parcel, queue, sockbuf, aborted, nsent, delivered, thr, lbl>>

\* Mutant of FromParcel: when dup fails its -1 is kept, errno is not stored.
FromParcel_KeepsRaw(c, room) ==
    /\ ~aborted
    /\ chan[c].state = "none"
    /\ LET d == Dup(fds, ParcelReadFd(parcel), room)
       IN  /\ fds' = IF d.fd < 0 THEN fds ELSE [fds EXCEPT ![d.fd] = fds[parcel]]
           /\ chan' = [chan EXCEPT ![c] =
                  [state |-> "live", mSendFd |-> -1, mReceiveFd |-> d.fd]]
           /\ last' = [NoCall EXCEPT !.op = "fromParcel", !.ret = d.fd]
    /\ UNCHANGED <<parcel, queue, sockbuf, aborted, nsent, delivered, thr, lbl>>

\* BitTube(const Parcel&)
FromParcel(c, room) ==
    /\ ~aborted
    /\ chan[c].state = "none"
    /\ LET d == Dup(fds, ParcelReadFd(parcel), room)
           rfd == IF d.fd < 0 THEN -d.errno ELSE d.fd
       IN  /\ fds' = IF d.fd < 0 THEN fds ELSE [fds EXCEPT ![d.fd] = fds[parcel]]
           /\ chan' = [chan EXCEPT ![c] =
                  [state |-> "live", mSendFd |-> -1, mReceiveFd |-> rfd]]
           /\ last' = [NoCall EXCEPT !.op = "fromParcel", !.ret = rfd]
    /\ UNCHANGED <<parcel, queue, sockbuf, aborted, nsent, delivered, thr, lbl>>

\* Mutant of Destroy: the receive descriptor is not closed.
Destroy_LeaksRx(c) ==
    /\ ~aborted
    /\ chan[c].state = "live"
    /\ LET t1 == IF chan[c].mSendFd >= 0 THEN Close(fds, chan[c].mSendFd) ELSE fds
       IN  /\ fds' = t1
           /\ queue' = QueueAfter(t1, queue)
    /\ chan' = [chan EXCEPT ![c] = [state |-> "dead", mSendFd |-> -1, mReceiveFd |-> -1]]
    /\ last' = [NoCall EXCEPT !.op = "destroy"]
    /\ UNCHANGED <<parcel, sockbuf, aborted, nsent, delivered, thr, lbl>>

\* ~BitTube()
Destroy(c) ==
    /\ ~aborted
    /\ chan[c].state = "live"
    /\ LET t1 == IF chan[c].mSendFd >= 0 THEN Close(fds, chan[c].mSendFd) ELSE fds
           t2 == IF chan[c].mReceiveFd >= 0 THEN Close(t1, chan[c].mReceiveFd) ELSE t1
       IN  /\ fds' = t2
           /\ queue' = QueueAfter(t2, queue)
    /\ chan' = [chan EXCEPT ![c] = [state |-> "dead", mSendFd |-> -1, mReceiveFd |-> -1]]
    /\ last' = [NoCall EXCEPT !.op = "destroy"]
    /\ UNCHANGED <<parcel, sockbuf, aborted, nsent, delivered, thr, lbl>>

\* Mutant of WriteToParcel: the descriptor is written but neither closed nor
\* forgotten.
WriteToParcel_KeepsFd(c, room) ==
    /\ ~aborted
    /\ chan[c].state = "live"
    /\ IF chan[c].mReceiveFd < 0
       THEN /\ last' = [NoCall EXCEPT !.op = "writeToParcel", !.ret = -EINVAL]
            /\ UNCHANGED <<parcel, fds>>
       ELSE /\ parcel < 0
            /\ LET w == ParcelWriteDupFd(fds, chan[c].mReceiveFd, room)
               IN  /\ parcel' = w.held
                   /\ fds' = w.fds
                   /\ last' = [NoCall EXCEPT !.op = "writeToParcel", !.ret = w.status]
    /\ UNCHANGED <<chan, queue, sockbuf, aborted, nsent, delivered, thr, lbl>>

\* Mutant of WriteToParcel: the descriptor is closed but mReceiveFd keeps its
\* number.
WriteToParcel_NoReset(c, room) ==
    /\ ~aborted
    /\ chan[c].state = "live"
    /\ IF chan[c].mReceiveFd < 0
       THEN /\ last' = [NoCall EXCEPT !.op = "writeToParcel", !.ret = -EINVAL]
            /\ UNCHANGED <<parcel, fds, queue>>
       ELSE /\ parcel < 0
            /\ LET w == ParcelWriteDupFd(fds, chan[c].mReceiveFd, room)
                   t == Close(w.fds, chan[c].mReceiveFd)
               IN  /\ parcel' = w.held
                   /\ fds' = t
                   /\ queue' = QueueAfter(t, queue)
                   /\ last' = [NoCall EXCEPT !.op = "writeToParcel", !.ret = w.status]
    /\ UNCHANGED <<chan, sockbuf, aborted, nsent, delivered, thr, lbl>>

\* writeToParcel(reply), reply a parcel that holds no descriptor yet
WriteToParcel(c, room) ==
    /\ ~aborted
    /\ chan[c].state = "live"
    /\ IF chan[c].mReceiveFd < 0
       THEN /\ last' = [NoCall EXCEPT !.op = "writeToParcel", !.ret = -EINVAL]
            /\ UNCHANGED <<chan, parcel, fds, queue>>
       ELSE /\ parcel < 0
            /\ LET w == ParcelWriteDupFd(fds, chan[c].mReceiveFd, room)
                   t == Close(w.fds, chan[c].mReceiveFd)
               IN  /\ parcel' = w.held
                   /\ fds' = t
                   /\ queue' = QueueAfter(t, queue)
                   /\ last' = [NoCall EXCEPT !.op = "writeToParcel",
                                             !.ret = w.status]
            /\ chan' = [chan EXCEPT ![c].mReceiveFd = -1]
    /\ UNCHANGED <<sockbuf, aborted, nsent, delivered, thr, lbl>>

\* The Parcel is destroyed or recycled: it closes the descriptor it owns.
ParcelFree ==
    /\ ~aborted
    /\ parcel >= 0
    /\ fds' = Close(fds, parcel)
    /\ queue' = QueueAfter(Close(fds, parcel), queue)
    /\ parcel' = -1
    /\ last' = [NoCall EXCEPT !.op = "parcelFree"]
    /\ UNCHANGED <<chan, sockbuf, aborted, nsent, delivered, thr, lbl>>

\* One call of write() by op ("write" itself, or "sendObjects" around it) on c.
SendStep(op, c, count, objSize) ==
    LET size == count * objSize
        events == Payload(nsent + 1, size)
        k == KSend(chan[c].mSendFd, size)
        raw == WriteRet(k)
        fatal == (op = "sendObjects") /\ Fatal(raw, objSize)
    IN  /\ ~aborted
        /\ chan[c].state = "live"
        /\ nsent < MaxSends
        /\ queue' = IF k.len >= 0
                    THEN Append(queue, [id |-> nsent + 1,
                                        data |-> SubSeq(events, 1, k.len),
                                        orig |-> events,
                                        xfer |-> chan[c].mReceiveFd < 0])
                    ELSE queue
        /\ nsent' = IF k.len >= 0 THEN nsent + 1 ELSE nsent
        /\ aborted' = fatal
        /\ last' = [op |-> op,
                    ret |-> IF fatal THEN 0
                            ELSE IF op = "write" THEN raw ELSE BatchRet(raw, objSize),
                    cond |-> IF k.len >= 0 THEN "sent"
                             ELSE IF k.errno = EAGAIN THEN "full" ELSE "error",
                    id |-> IF k.len >= 0 THEN nsent + 1 ELSE 0,
                    buf |-> <<>>,
                    orig |-> IF k.len >= 0 THEN events ELSE <<>>,
                    xfer |-> (k.len >= 0) /\ (chan[c].mReceiveFd < 0)]
        /\ UNCHANGED <<chan, parcel, fds, sockbuf, delivered, thr, lbl>>

\* One call of read() by op ("read" itself, or "recvObjects" around it) on c.
RecvStep(op, c, count, objSize) ==
    LET size == count * objSize
        k == KRecv(chan[c].mReceiveFd, size)
        raw == ReadRet(k)
        fatal == (op = "recvObjects") /\ Fatal(raw, objSize)
        got == k.cond = "data"
    IN  /\ ~aborted
        /\ chan[c].state = "live"
        /\ queue' = k.rest
        /\ delivered' = IF got THEN delivered + 1 ELSE delivered
        /\ aborted' = fatal
        /\ last' = [op |-> op,
                    ret |-> IF fatal THEN 0
                            ELSE IF op = "read" THEN raw ELSE BatchRet(raw, objSize),
                    cond |-> k.cond,
                    id |-> IF got THEN k.msg[1].id ELSE 0,
                    buf |-> k.data,
                    orig |-> IF got THEN k.msg[1].orig ELSE <<>>,
                    xfer |-> got /\ k.msg[1].xfer]
        /\ UNCHANGED <<chan, parcel, fds, sockbuf, nsent, thr, lbl>>

\* write(vaddr, size)
Write(c, size) == SendStep("write", c, size, 1)

\* read(vaddr, size)
Read(c, size) == RecvStep("read", c, size, 1)

\* sendObjects(tube, events, count, objSize)
SendObjects(c, count, objSize) == SendStep("sendObjects", c, count, objSize)

\* recvObjects(tube, events, count, objSize)
RecvObjects(c, count, objSize) == RecvStep("recvObjects", c, count, objSize)

Next ==
    \/ \E b \in BufSizes, ok \in BOOLEAN : Create(b, ok)
    \/ \E c \in Chans \ {"A"}, room \in BOOLEAN : FromParcel(c, room)
    \/ \E c \in Chans : Destroy(c)
    \/ \E c \in Chans, room \in BOOLEAN : WriteToParcel(c, room)
    \/ ParcelFree
    \/ \E c \in Chans, n \in Counts : Write(c, n)
    \/ \E c \in Chans, n \in Counts : Read(c, n)
    \/ \E c \in Chans, n \in Counts, z \in ObjSizes : SendObjects(c, n, z)
    \/ \E c \in Chans, n \in Counts, z \in ObjSizes : RecvObjects(c, n, z)

Spec == Init /\ [][Next]_vars

\* The same methods with all three objects alive, one-byte records and a
\* receive buffer of MaxCount records: the owners of the descriptors of a parcel
\* read by two BitTube(Parcel) constructors.
NextOwners ==
    \/ \E b \in BufSizes, ok \in BOOLEAN : Create(b, ok)
    \/ \E c \in Tubes \ {"A"}, room \in BOOLEAN : FromParcel(c, room)
    \/ \E c \in Tubes : Destroy(c)
    \/ \E c \in Tubes, room \in BOOLEAN : WriteToParcel(c, room)
    \/ ParcelFree
    \/ \E c \in Tubes, n \in Counts \ {0} : SendObjects(c, n, 1)
    \/ \E c \in Tubes : RecvObjects(c, MaxCount, 1)

SpecOwners == Init /\ [][NextOwners]_vars

\* recvObjects by an object that holds a descriptor of the receive end
HolderRecv ==
    \E c \in Tubes :
        /\ chan[c].state = "live"
        /\ IsOpen(fds, chan[c].mReceiveFd)
        /\ RecvObjects(c, MaxCount, 1)

\* The same, with owners of the receive end that keep calling recvObjects.
SpecDelivery == Init /\ [][NextOwners]_vars /\ WF_vars(HolderRecv)

\* ------------------------------------------------------------ threads
\* One thread inside write() or read(), step by step, while the other methods
\* run as before: the object has no lock, so a call of another thread may come
\* between the read of mSendFd/mReceiveFd and the system call.

\* Mutant of Retry: the loop also retries when the socket would block.
Retry_Again(err) == err \in {EINTR, EAGAIN}

\* do { ... } while (err == EINTR)
Retry(err) == err = EINTR

\* A thread enters write(vaddr, size) or read(vaddr, size) on c.
CallBegin(op, c, size) ==
    /\ ~aborted
    /\ thr.pc = "idle"
    /\ chan[c].state = "live"
    /\ (op = "write") => (nsent < MaxSends)
    /\ thr' = [pc |-> "load", op |-> op, c |-> c, size |-> size, fd |-> -1, intr |-> 0]
    /\ UNCHANGED <<chan, parcel, fds, queue, sockbuf, aborted, nsent, delivered, last, lbl>>

\* The thread reads mSendFd or mReceiveFd, the argument of ::send or ::recv.
LoadFd ==
    /\ thr.pc = "load"
    /\ thr' = [thr EXCEPT !.pc = "io",
                          !.fd = IF thr.op = "write" THEN chan[thr.c].mSendFd
                                 ELSE chan[thr.c].mReceiveFd]
    /\ UNCHANGED <<chan, parcel, fds, queue, sockbuf, aborted, nsent, delivered, last, lbl>>

\* ::send or ::recv is interrupted by a signal before it did anything: EINTR.
SyscallIntr ==
    /\ thr.pc = "io"
    /\ IsOpen(fds, thr.fd)
    /\ thr.intr < MaxIntr
    /\ Retry(EINTR)
    /\ thr' = [thr EXCEPT !.pc = "load", !.intr = @ + 1]
    /\ UNCHANGED <<chan, parcel, fds, queue, sockbuf, aborted, nsent, delivered, last, lbl>>

\* ::send(mSendFd, ...) with the descriptor number loaded, and the end of the loop
SyscallSend ==
    LET k == KSend(thr.fd, thr.size)
        err == IF k.len < 0 THEN k.errno ELSE 0
        events == Payload(nsent + 1, thr.size)
    IN  /\ thr.pc = "io" /\ thr.op = "write"
        /\ queue' = IF k.len >= 0
                    THEN Append(queue, [id |-> nsent + 1,
                                        data |-> SubSeq(events, 1, k.len),
                                        orig |-> events,
                                        xfer |-> chan[thr.c].mReceiveFd < 0])
                    ELSE queue
        /\ nsent' = IF k.len >= 0 THEN nsent + 1 ELSE nsent
        /\ IF Retry(err)
           THEN thr' = [thr EXCEPT !.pc = "load"] /\ UNCHANGED last
           ELSE /\ thr' = [NoThread EXCEPT !.intr = thr.intr]
                /\ last' = [op |-> "write", ret |-> WriteRet(k),
                            cond |-> IF k.len >= 0 THEN "sent"
                                     ELSE IF k.errno = EAGAIN THEN "full" ELSE "error",
                            id |-> IF k.len >= 0 THEN nsent + 1 ELSE 0,
                            buf |-> <<>>,
                            orig |-> IF k.len >= 0 THEN events ELSE <<>>,
                            xfer |-> (k.len >= 0) /\ (chan[thr.c].mReceiveFd < 0)]
        /\ UNCHANGED <<chan, parcel, fds, sockbuf, aborted, delivered, lbl>>

\* ::recv(mReceiveFd, ...) with the descriptor number loaded, and the end of the loop
SyscallRecv ==
    LET k == KRecv(thr.fd, thr.size)
        err == IF k.len < 0 THEN k.errno ELSE 0
        got == k.cond = "data"
    IN  /\ thr.pc = "io" /\ thr.op = "read"
        /\ queue' = k.rest
        /\ delivered' = IF got THEN delivered + 1 ELSE delivered
        /\ IF Retry(err)
           THEN thr' = [thr EXCEPT !.pc = "load"] /\ UNCHANGED last
           ELSE /\ thr' = [NoThread EXCEPT !.intr = thr.intr]
                /\ last' = [op |-> "read", ret |-> ReadRet(k), cond |-> k.cond,
                            id |-> IF got THEN k.msg[1].id ELSE 0,
                            buf |-> k.data,
                            orig |-> IF got THEN k.msg[1].orig ELSE <<>>,
                            xfer |-> got /\ k.msg[1].xfer]
        /\ UNCHANGED <<chan, parcel, fds, sockbuf, aborted, nsent, lbl>>

\* ~BitTube() once no thread is inside a method of c (the last sp<BitTube> is gone)
DestroyUnused(c) == (thr.pc = "idle" \/ thr.c # c) /\ Destroy(c)

NextThreads ==
    \/ \E b \in BufSizes, ok \in BOOLEAN : Create(b, ok)
    \/ \E c \in Chans \ {"A"}, room \in BOOLEAN : FromParcel(c, room)
    \/ \E c \in Chans : DestroyUnused(c)
    \/ \E c \in Chans, room \in BOOLEAN : WriteToParcel(c, room)
    \/ ParcelFree
    \/ \E op \in {"write", "read"}, c \in Chans : CallBegin(op, c, MaxCount)
    \/ LoadFd
    \/ SyscallIntr
    \/ SyscallSend
    \/ SyscallRecv

\* The thread inside write() or read() keeps running.
SpecThreads ==
    /\ Init /\ [][NextThreads]_vars
    /\ WF_vars(LoadFd) /\ WF_vars(SyscallSend) /\ WF_vars(SyscallRecv)

\* ------------------------------------------------------------ labels
\* InputEventLabels.h. A table is a sequence of { literal, value } entries ended
\* by { NULL, 0 }. The values come from headers outside this file, so a table
\* is any one with the literals in the order of the file and values that grow
\* along it; lbl.tbl stands for the table the function called reads.
Literals == <<"UNKNOWN", "SOFT_LEFT", "SOFT_RIGHT", "HOME", "BACK", "CALL">>

Growing(f) == \A i, j \in DOMAIN f : i < j => f[i] < f[j]

LabelTables ==
    { [i \in 1 .. (TableLen + 1) |->
          IF i <= TableLen THEN [literal |-> Literals[i], value |-> f[i]]
          ELSE Sentinel] :
      f \in {g \in [1 .. TableLen -> 0 .. MaxVal] : Growing(g)} }

\* The labels and the codes callers ask for
AskedLabels == {Literals[i] : i \in 1 .. TableLen} \cup {"NOSUCH"}
AskedCodes == (-1) .. (MaxVal + 1)

\* size(KEYCODES): the number of entries, the terminator included
TableSize(list) == Len(list)

\* lookupValueByLabel(literal, list), list being the entries from the i-th on
RECURSIVE lookupValueByLabel(_, _, _)
lookupValueByLabel(literal, list, i) ==
    IF list[i].literal = NULL THEN list[i].value
    ELSE IF literal = list[i].literal THEN list[i].value
    ELSE lookupValueByLabel(literal, list, i + 1)

\* lookupLabelByValue(value, list), list being the entries from the i-th on
RECURSIVE lookupLabelByValue(_, _, _)
lookupLabelByValue(value, list, i) ==
    IF list[i].literal = NULL THEN NULL
    ELSE IF list[i].value = value THEN list[i].literal
    ELSE lookupLabelByValue(value, list, i + 1)

\* getLabelByKeyCode(keyCode): KEYCODES[keyCode].literal, the array counted from 0
getLabelByKeyCode(keyCode, KEYCODES) ==
    IF keyCode >= 0 /\ keyCode < TableSize(KEYCODES)
    THEN KEYCODES[keyCode + 1].literal
    ELSE NULL

InitLabels == InitTube /\ lbl \in {NoLookup(t) : t \in LabelTables}

\* getKeyCodeByLabel, getKeyFlagByLabel, getAxisByLabel, getLedByLabel
ByLabel(fn, label) ==
    /\ lbl' = [tbl |-> lbl.tbl, fn |-> fn, name |-> label, code |-> 0,
               rname |-> NULL, rcode |-> lookupValueByLabel(label, lbl.tbl, 1)]
    /\ UNCHANGED <<chan, parcel, fds, queue, sockbuf, aborted, nsent, delivered, last, thr>>

GetKeyCodeByLabel(label) == ByLabel("getKeyCodeByLabel", label)

GetKeyFlagByLabel(label) == ByLabel("getKeyFlagByLabel", label)

GetAxisByLabel(label) == ByLabel("getAxisByLabel", label)

GetLedByLabel(label) == ByLabel("getLedByLabel", label)

GetLabelByKeyCode(keyCode) ==
    /\ lbl' = [tbl |-> lbl.tbl, fn |-> "getLabelByKeyCode", name |-> NULL,
               code |-> keyCode, rname |-> getLabelByKeyCode(keyCode, lbl.tbl),
               rcode |-> 0]
    /\ UNCHANGED <<chan, parcel, fds, queue, sockbuf, aborted, nsent, delivered, last, thr>>

GetAxisLabel(axisId) ==
    /\ lbl' = [tbl |-> lbl.tbl, fn |-> "getAxisLabel", name |-> NULL,
               code |-> axisId, rname |-> lookupLabelByValue(axisId, lbl.tbl, 1),
               rcode |-> 0]
    /\ UNCHANGED <<chan, parcel, fds, queue, sockbuf, aborted, nsent, delivered, last, thr>>

NextLabels ==
    \/ \E l \in AskedLabels : GetKeyCodeByLabel(l)
    \/ \E l \in AskedLabels : GetKeyFlagByLabel(l)
    \/ \E l \in AskedLabels : GetAxisByLabel(l)
    \/ \E l \in AskedLabels : GetLedByLabel(l)
    \/ \E k \in AskedCodes : GetLabelByKeyCode(k)
    \/ \E a \in AskedCodes : GetAxisLabel(a)

SpecLabels == InitLabels /\ [][NextLabels]_vars

\* ------------------------------------------------------------ claims
\* c is live and its mReceiveFd is an open descriptor of the receive end
HoldsRx(c) ==
    /\ chan[c].state = "live"
    /\ IsOpen(fds, chan[c].mReceiveFd)
    /\ fds[chan[c].mReceiveFd] = "rx"

\* c is live and its mSendFd is an open descriptor of the send end
HoldsTx(c) ==
    /\ chan[c].state = "live"
    /\ IsOpen(fds, chan[c].mSendFd)
    /\ fds[chan[c].mSendFd] = "tx"

\* C1 (round trip): when the first datagram sent on a channel holds n >= 1 records
\* of z bytes and nothing was received yet, the next recvObjects(n, z) on a
\* channel holding the receive end returns n and fills the buffer with exactly
\* the bytes of the sender's buffer.
C1_RoundTrip ==
    [][(last'.op = "recvObjects" /\ nsent = 1 /\ delivered = 0) =>
       \A c \in Chans, n \in Counts, z \in ObjSizes :
          ( /\ n >= 1
            /\ nsent = 1 /\ delivered = 0 /\ Len(queue) = 1
            /\ Len(Head(queue).orig) = n * z
            /\ HoldsRx(c)
            /\ RecvObjects(c, n, z) )
          => ( /\ ~aborted'
               /\ last'.ret = n
               /\ last'.buf = Head(queue).orig
               /\ last'.buf = Payload(1, n * z) )]_vars

C1_Witness ==
    /\ last.op = "recvObjects" /\ last.cond = "data" /\ ~aborted
    /\ last.id = 1 /\ nsent = 1
    /\ last.ret = 1 /\ Len(last.buf) = 2 /\ last.buf = last.orig

\* C2 (ordering and boundaries): every read or recvObjects on a channel holding
\* the receive end, while a datagram is queued, takes exactly one datagram, the
\* one sent next after the one taken before it; with a buffer at least as large
\* as the datagram it returns exactly the bytes of that one send call. The queue
\* holds the datagrams sent and not yet taken, in send order.
C2_Step(c, n, z) ==
    ( /\ HoldsRx(c) /\ queue # <<>>
      /\ (RecvObjects(c, n, z) \/ (z = 1 /\ Read(c, n))) )
    => ( /\ last'.cond = "data"
         /\ last'.id = delivered + 1
         /\ delivered' = delivered + 1
         /\ Len(queue') = Len(queue) - 1
         /\ last'.orig = Payload(last'.id, Len(last'.orig))
         /\ (n * z >= Len(last'.orig) => last'.buf = last'.orig) )

C2_QueueInOrder ==
    \A i \in 1 .. Len(queue) :
        /\ queue[i].id = delivered + i
        /\ queue[i].data = Payload(queue[i].id, Len(queue[i].data))

\* C2: receives take the queued datagrams one per call, whole, in send order.
C2_Ordering ==
    [][ /\ (last'.op \in {"read", "recvObjects"} /\ queue # <<>>) =>
              \A c \in Chans, n \in Counts, z \in ObjSizes : C2_Step(c, n, z)
        /\ (RxOpen(fds) => C2_QueueInOrder)
        /\ (RxOpen(fds') => C2_QueueInOrder') ]_vars

C2_Witness ==
    /\ last.op = "recvObjects" /\ last.cond = "data" /\ ~aborted
    /\ last.id = 2 /\ delivered = 2
    /\ last.ret >= 1 /\ last.buf = last.orig

\* C4 (would-block on receive is not an error): read and recvObjects on a channel
\* holding the receive end, while no datagram is queued, return 0 and change
\* neither the queue nor any descriptor.
C4_EmptyReceive ==
    [][(last'.op \in {"read", "recvObjects"} /\ queue = <<>>) =>
       \A c \in Chans, n \in Counts, z \in ObjSizes :
          ( /\ HoldsRx(c) /\ queue = <<>>
            /\ (RecvObjects(c, n, z) \/ (z = 1 /\ Read(c, n))) )
          => ( /\ last'.ret = 0 /\ ~aborted'
               /\ UNCHANGED <<queue, chan, fds, parcel>> )]_vars

C4_Witness ==
    /\ last.op = "recvObjects" /\ last.cond = "wouldblock" /\ last.ret = 0
    /\ nsent = 0 /\ HoldsRx("A") /\ ~aborted

\* The send end cannot take size more bytes.
OutboundFull(size) == QueuedBytes(queue) + size > sockbuf

\* C5 (backpressure on send): write and sendObjects on a channel holding the send
\* end, with the receive end open and the outbound buffer full, return a negative
\* value and queue nothing.
C5_FullSend ==
    [][(last'.op \in {"write", "sendObjects"} /\ RxOpen(fds)) =>
       \A c \in Chans, n \in Counts, z \in ObjSizes :
          ( /\ HoldsTx(c) /\ RxOpen(fds) /\ OutboundFull(n * z)
            /\ (SendObjects(c, n, z) \/ (z = 1 /\ Write(c, n))) )
          => ( /\ last'.ret < 0 /\ ~aborted'
               /\ last'.id = 0
               /\ UNCHANGED <<queue, nsent, delivered>> )]_vars

C5_Witness ==
    /\ last.op = "sendObjects" /\ last.cond = "full" /\ last.ret = -EAGAIN
    /\ queue # <<>> /\ ~aborted

\* What read() returns when ::recv reports that no datagram is queued yet, and
\* when it reports that the send end is closed.
WouldBlockValue == ReadRet([len |-> -1, errno |-> EAGAIN])

PeerClosedValue == ReadRet([len |-> 0, errno |-> 0])

\* C3 (the three receive conditions are distinguishable): the value a read or
\* recvObjects returns when it finds the send end closed differs from the value
\* returned for would-block, and the value returned for an error differs from
\* both.
C3_Distinguishable ==
    (last.op \in {"read", "recvObjects"} /\ ~aborted)
    => /\ (last.cond = "eof" => last.ret # WouldBlockValue)
       /\ (last.cond = "error" => last.ret \notin {WouldBlockValue, PeerClosedValue})

\* What does hold: an error is told apart from the other two conditions.
C3_ErrorDistinct ==
    (last.op \in {"read", "recvObjects"} /\ ~aborted /\ last.cond = "error")
    => (last.ret < 0 /\ last.ret \notin {WouldBlockValue, PeerClosedValue})

\* C6 (exact transfer length), as the specification words it: every sendObjects(n, z) and every
\* recvObjects(n, z) that moves data returns exactly n, having moved n*z bytes.
C6_ExactCount ==
    [][(last'.op \in {"sendObjects", "recvObjects"} /\ last'.cond \in {"sent", "data"}) =>
       \A c \in Chans, n \in Counts, z \in ObjSizes :
          /\ (last'.cond = "sent" /\ last'.ret > 0 /\ SendObjects(c, n, z))
             => (last'.ret = n /\ Len(last'.orig) = n * z)
          /\ (last'.cond = "data" /\ ~aborted' /\ last'.ret > 0 /\ RecvObjects(c, n, z))
             => (last'.ret = n /\ Len(last'.buf) = n * z)]_vars

\* C6 (exact transfer length), as the code has it: a sendObjects(n, z) that the kernel accepts queues one datagram
\* of exactly n*z bytes and returns n; a recvObjects(n, z) that takes a datagram
\* of m bytes and returns moves min(m, n*z) bytes, a whole number k <= n of
\* records, and returns k; k = n when the datagram holds at least n records.
C6_TransferLength ==
    [][(last'.op \in {"sendObjects", "recvObjects"} /\ last'.cond \in {"sent", "data"}) =>
       \A c \in Chans, n \in Counts, z \in ObjSizes :
          /\ (last'.cond = "sent" /\ SendObjects(c, n, z))
             => ( /\ ~aborted'
                  /\ last'.ret = n
                  /\ Len(queue') = Len(queue) + 1
                  /\ Len(queue'[Len(queue')].data) = n * z )
          /\ (last'.cond = "data" /\ ~aborted' /\ RecvObjects(c, n, z))
             => ( /\ last'.ret <= n
                  /\ Len(last'.buf) = last'.ret * z
                  /\ Len(last'.buf) = Min(Len(Head(queue).data), n * z)
                  /\ (Len(Head(queue).data) >= n * z => last'.ret = n) )]_vars

C6_Witness ==
    /\ last.op = "recvObjects" /\ last.cond = "data" /\ ~aborted
    /\ last.ret = 1 /\ Len(last.buf) = 1 /\ Len(last.orig) = 2

\* C7 (a boundary violation is fatal, and nothing else is): a step aborts the
\* process exactly when it is a sendObjects or recvObjects whose raw write or
\* read returned a non-negative byte count that is no multiple of objSize; an
\* aborted call returns nothing (ret stays 0) and no step starts from an aborted
\* state.
C7_PartialSend(c, n, z) ==
    LET raw == WriteRet(KSend(chan[c].mSendFd, n * z))
    IN  last'.op = "sendObjects" /\ raw >= 0 /\ raw % z # 0 /\ SendObjects(c, n, z)

C7_PartialRecv(c, n, z) ==
    LET raw == ReadRet(KRecv(chan[c].mReceiveFd, n * z))
    IN  last'.op = "recvObjects" /\ raw >= 0 /\ raw % z # 0 /\ RecvObjects(c, n, z)

\* C7: the process aborts exactly on a partial-record sendObjects or recvObjects.
C7_FatalIffPartial ==
    [][ /\ ~aborted
        /\ aborted' <=> ( /\ last'.op \in {"sendObjects", "recvObjects"}
                          /\ \E c \in Chans, n \in Counts, z \in ObjSizes :
                                C7_PartialSend(c, n, z) \/ C7_PartialRecv(c, n, z) )
        /\ aborted' => last'.ret = 0 ]_vars

C7_Witness ==
    /\ aborted /\ last.op = "recvObjects" /\ last.cond = "data"
    /\ Len(last.buf) = 1

\* C8 (handle transfer delivers the stream): a channel built by BitTube(Parcel)
\* from a parcel that holds a descriptor, when dup succeeds, has no send
\* descriptor and a receive descriptor of its own on the receive end, and the
\* queue is untouched by the transfer; recvObjects on such a channel with a
\* buffer that fits takes the datagrams the sender sent, each whole and in send
\* order; while a descriptor of the receive end is open no datagram is lost.
C8_Built(c, room) ==
    (parcel >= 0 /\ chan'[c].mReceiveFd >= 0 /\ FromParcel(c, room))
    => ( /\ chan'[c].mSendFd = -1
         /\ HoldsRx(c)'
         /\ chan'[c].mReceiveFd # parcel
         /\ IsOpen(fds', parcel) /\ fds'[parcel] = "rx"
         /\ UNCHANGED <<queue, nsent, delivered>> )

C8_Received(c, n, z) ==
    ( /\ c # "A" /\ HoldsRx(c) /\ queue # <<>>
      /\ n * z >= Len(Head(queue).orig) /\ Len(Head(queue).orig) % z = 0
      /\ RecvObjects(c, n, z) )
    => ( /\ ~aborted'
         /\ last'.id = delivered + 1
         /\ last'.buf = Payload(last'.id, Len(Head(queue).orig))
         /\ last'.buf = Head(queue).orig
         /\ last'.ret * z = Len(last'.buf)
         /\ queue' = Tail(queue) )

C8_NothingLost == RxOpen(fds) => Len(queue) = nsent - delivered

\* C8: the channel rebuilt from the parcel receives what the sender sent, whole
\* and in order, and the transfer itself moves no datagram.
C8_Transfer ==
    [][ /\ (last'.op = "fromParcel") =>
              \A c \in Chans, room \in BOOLEAN : C8_Built(c, room)
        /\ (last'.op = "recvObjects" /\ queue # <<>>) =>
              \A c \in Chans, n \in Counts, z \in ObjSizes : C8_Received(c, n, z)
        /\ (last'.op = "writeToParcel" /\ last'.ret = NO_ERROR) =>
              \A c \in Chans, room \in BOOLEAN :
                 (HoldsRx(c) /\ WriteToParcel(c, room))
                 => (queue' = queue /\ IsOpen(fds', parcel') /\ fds'[parcel'] = "rx")
        /\ C8_NothingLost /\ C8_NothingLost' ]_vars

C8_Witness ==
    /\ last.op = "recvObjects" /\ last.cond = "data" /\ ~aborted
    /\ last.xfer /\ last.ret = 2 /\ last.buf = last.orig
    /\ chan["A"].state = "live" /\ chan["A"].mReceiveFd = -1 /\ HoldsTx("A")
    /\ HoldsRx("B") /\ chan["B"].mSendFd = -1

\* C9 (serialize consumes the receive handle): writeToParcel on a channel with a
\* valid receive descriptor closes that descriptor and leaves mReceiveFd
\* negative, so that initCheck is not NO_ERROR and read fails; on a channel whose
\* mReceiveFd is negative it returns -EINVAL and changes neither the parcel nor
\* the channel nor any descriptor. read and recvObjects on a channel whose
\* mReceiveFd is negative return a negative value.
C9_Serialize(c, room) ==
    WriteToParcel(c, room)
    => IF chan[c].mReceiveFd >= 0
       THEN /\ fds'[chan[c].mReceiveFd] = "free"
            /\ chan'[c].mReceiveFd < 0
            /\ chan'[c].mSendFd = chan[c].mSendFd
            /\ InitCheck(c)' # NO_ERROR
            /\ ReadRet(KRecv(chan[c].mReceiveFd, MaxCount))' < 0
       ELSE /\ last'.ret = -EINVAL
            /\ UNCHANGED <<chan, parcel, fds, queue>>

C9_ReceiveFails(c, n, z) ==
    ( /\ chan[c].mReceiveFd < 0
      /\ (RecvObjects(c, n, z) \/ (z = 1 /\ Read(c, n))) )
    => last'.cond = "error"

\* C9: writeToParcel gives up the receive descriptor; receiving without one fails.
C9_ConsumesHandle ==
    [][ /\ (last'.op = "writeToParcel") =>
              \A c \in Chans, room \in BOOLEAN : C9_Serialize(c, room)
        /\ (last'.op \in {"read", "recvObjects"} /\ last'.cond # "error") =>
              \A c \in Chans, n \in Counts, z \in ObjSizes : C9_ReceiveFails(c, n, z)
        /\ (last'.op \in {"read", "recvObjects"} /\ last'.cond = "error") =>
              (last'.ret < 0 /\ queue' = queue) ]_vars

C9_Witness ==
    /\ last.op \in {"read", "recvObjects"} /\ last.cond = "error" /\ last.ret < 0
    /\ chan["A"].state = "live" /\ chan["A"].mReceiveFd = -1 /\ HoldsTx("A")
    /\ InitCheck("A") # NO_ERROR
    /\ chan["B"].state = "none"
    /\ parcel >= 0 /\ fds[parcel] = "rx"

\* C10 (independence of duplicated handles): the descriptors held by the live
\* channels and by the parcel are pairwise different descriptor numbers, each
\* open on the end it was obtained for; so a release by one owner (which keeps
\* this true) never closes the descriptor of another, and every holder of a
\* receive descriptor can still receive.
Holders ==
    {<<c, "rx">> : c \in {x \in Tubes : chan[x].state = "live" /\ chan[x].mReceiveFd >= 0}}
    \cup {<<c, "tx">> : c \in {x \in Tubes : chan[x].state = "live" /\ chan[x].mSendFd >= 0}}
    \cup {<<"parcel", "rx">> : x \in {parcel} \cap Nat}

HeldFd(h) ==
    IF h[1] = "parcel" THEN parcel
    ELSE IF h[2] = "rx" THEN chan[h[1]].mReceiveFd ELSE chan[h[1]].mSendFd

\* C10: every held descriptor is open, on its own end, and shared with no other
\* holder, and every holder of a receive descriptor can receive.
C10_Independent ==
    /\ \A h \in Holders : IsOpen(fds, HeldFd(h)) /\ fds[HeldFd(h)] = h[2]
    /\ \A g, h \in Holders : g # h => HeldFd(g) # HeldFd(h)
    /\ \A c \in Tubes :
          (chan[c].state = "live" /\ chan[c].mReceiveFd >= 0)
          => ReadRet(KRecv(chan[c].mReceiveFd, MaxCount)) >= 0

C10_Witness ==
    /\ last.op = "destroy"
    /\ chan["A"].state = "dead" /\ chan["C"].state = "dead" /\ parcel = -1
    /\ HoldsRx("B") /\ ReadRet(KRecv(chan["B"].mReceiveFd, MaxCount)) >= 0

\* C11 (initCheck tells validity): for every live object, initCheck() is
\* NO_ERROR exactly when mReceiveFd is an open descriptor of the receive end,
\* and is negative otherwise.
C11_InitCheckIffValid ==
    \A c \in Tubes :
        chan[c].state = "live"
        => /\ (InitCheck(c) = NO_ERROR) <=> HoldsRx(c)
           /\ (InitCheck(c) # NO_ERROR) => (InitCheck(c) < 0)

C11_Witness ==
    /\ last.op = "recvObjects" /\ last.cond = "data" /\ ~aborted
    /\ chan["A"].state = "live" /\ InitCheck("A") = -1 /\ ~HoldsRx("A")
    /\ HoldsRx("B") /\ InitCheck("B") = NO_ERROR

\* c is live and holds no open descriptor
NoHandles(c) ==
    /\ chan[c].state = "live"
    /\ ~IsOpen(fds, chan[c].mSendFd)
    /\ ~IsOpen(fds, chan[c].mReceiveFd)

C12_Release(c, room) ==
    (HoldsRx(c) /\ ~IsOpen(fds, chan[c].mSendFd) /\ WriteToParcel(c, room))
    => (NoHandles(c)' /\ InitCheck(c)' < 0)

C12_Stays(c) ==
    (NoHandles(c) /\ chan'[c].state = "live")
    => (NoHandles(c)' /\ chan'[c] = chan[c] /\ InitCheck(c)' < 0)

\* The step is a call of op on c with these arguments.
C12_Called(op, c, n, z) ==
    CASE op = "sendObjects" -> SendObjects(c, n, z)
      [] op = "recvObjects" -> RecvObjects(c, n, z)
      [] op = "write" -> (z = 1 /\ Write(c, n))
      [] op = "read" -> (z = 1 /\ Read(c, n))
      [] op = "writeToParcel" -> (n = 0 /\ z = 1 /\ \E room \in BOOLEAN : WriteToParcel(c, room))
      [] OTHER -> FALSE

C12_Failed ==
    /\ last'.ret < 0 /\ ~aborted'
    /\ UNCHANGED <<chan, fds, queue, parcel, nsent, delivered>>

C12_Again(c) == (NoHandles(c) /\ Destroy(c)) => (fds' = fds /\ queue' = queue)

\* C12 (idempotent close): once a live object holds no open descriptor any more
\* (its last one released by writeToParcel), it holds none from then on,
\* initCheck() stays negative, every write, read, sendObjects, recvObjects and
\* writeToParcel on it returns a negative value and changes nothing, and
\* ~BitTube closes nothing.
C12_IdempotentClose ==
    [][ /\ (last'.op = "writeToParcel") =>
              \A c \in Chans, room \in BOOLEAN : C12_Release(c, room)
        /\ \A c \in Chans : C12_Stays(c)
        /\ \/ C12_Failed
           \/ \A c \in Chans : NoHandles(c) =>
                 \A n \in Counts, z \in ObjSizes : ~C12_Called(last'.op, c, n, z)
        /\ (last'.op = "destroy") => \A c \in Chans : C12_Again(c) ]_vars

C12_Witness ==
    /\ last.op = "write" /\ last.ret = -EBADF
    /\ chan["A"].state = "dead"
    /\ chan["B"] = [state |-> "live", mSendFd |-> -1, mReceiveFd |-> -1]
    /\ parcel >= 0

\* "A" is in the state a failed socketpair leaves it in
C13_Failed ==
    chan["A"] = [state |-> "live", mSendFd |-> -1, mReceiveFd |-> -EMFILE]

C13_CreateFails(b) ==
    Create(b, FALSE)
    => ( /\ ~aborted' /\ C13_Failed'
         /\ InitCheck("A")' = -EMFILE /\ InitCheck("A")' < 0
         /\ ~HoldsRx("A")' /\ ~HoldsTx("A")'
         /\ fds' = fds )

C13_OpFails(n, z) ==
    ( /\ C13_Failed
      /\ \/ SendObjects("A", n, z) \/ RecvObjects("A", n, z)
         \/ (z = 1 /\ (Write("A", n) \/ Read("A", n)))
         \/ (n = 0 /\ (WriteToParcel("A", z = 1))) )
    => ( /\ last'.ret < 0 /\ ~aborted' /\ C13_Failed'
         /\ UNCHANGED <<fds, queue, parcel, nsent, delivered>> )

\* C13 (creation failure): when socketpair fails, BitTube(bufsize) returns
\* without aborting an object with mSendFd = -1 and mReceiveFd = -errno that
\* holds no descriptor; initCheck() returns -errno; every later write, read,
\* sendObjects, recvObjects and writeToParcel on it returns a negative value.
C13_CreationFailure ==
    [][ /\ (last'.op = "create") => \A b \in BufSizes : C13_CreateFails(b)
        /\ (C13_Failed /\ last'.op \notin {"create", "fromParcel", "destroy", "parcelFree"}) =>
              \A n \in Counts, z \in ObjSizes : C13_OpFails(n, z) ]_vars

C13_Witness ==
    /\ last.op = "sendObjects" /\ last.ret = -EBADF /\ ~aborted
    /\ C13_Failed /\ InitCheck("A") = -EMFILE
    /\ chan["B"].state = "none"

C14_DupFails(c, room) ==
    LET d == Dup(fds, ParcelReadFd(parcel), room)
    IN  (d.fd < 0 /\ FromParcel(c, room))
        => ( /\ ~aborted'
             /\ chan'[c] = [state |-> "live", mSendFd |-> -1, mReceiveFd |-> -d.errno]
             /\ d.errno > 0
             /\ (parcel < 0 => d.errno = EBADF)
             /\ InitCheck(c)' = -d.errno
             /\ UNCHANGED <<fds, parcel, queue>> )

C14_OwnsNothing(c, room) ==
    ( /\ chan[c].state = "live" /\ chan[c].mReceiveFd \in {-EBADF, -EMFILE}
      /\ (Destroy(c) \/ WriteToParcel(c, room)) )
    => UNCHANGED <<fds, parcel, queue>>

\* C14 (deserialize failure): when dup of the parcel's descriptor fails (the
\* parcel holding none included), BitTube(Parcel) still returns an object; it
\* has mSendFd = -1 and mReceiveFd = -errno, initCheck() returns -errno, the
\* constructor opens nothing, and ~BitTube and writeToParcel on it close nothing.
C14_DeserializeFailure ==
    [][ /\ (last'.op = "fromParcel") =>
              \A c \in Chans \ {"A"}, room \in BOOLEAN : C14_DupFails(c, room)
        /\ (last'.op \in {"destroy", "writeToParcel"}) =>
              \A c \in Chans \ {"A"}, room \in BOOLEAN : C14_OwnsNothing(c, room) ]_vars

C14_Witness ==
    /\ last.op = "fromParcel" /\ last.ret = -EBADF /\ parcel = -1
    /\ chan["B"] = [state |-> "live", mSendFd |-> -1, mReceiveFd |-> -EBADF]
    /\ InitCheck("B") = -EBADF /\ ~HoldsRx("B")

C16_Send(c, n, z) ==
    LET raw == WriteRet(KSend(chan[c].mSendFd, n * z))
    IN  \/ /\ (raw < 0) => (last'.ret = raw /\ ~aborted')
           /\ (raw >= 0 /\ raw % z = 0) =>
                 (last'.ret >= 0 /\ last'.ret * z = raw /\ ~aborted')
        \/ ~SendObjects(c, n, z)

C16_Recv(c, n, z) ==
    LET raw == ReadRet(KRecv(chan[c].mReceiveFd, n * z))
    IN  \/ /\ (raw < 0) => (last'.ret = raw /\ ~aborted')
           /\ (raw >= 0 /\ raw % z = 0) =>
                 (last'.ret >= 0 /\ last'.ret * z = raw /\ ~aborted')
        \/ ~RecvObjects(c, n, z)

\* C16 (error propagation in the batch helpers): when write() or read() returns
\* a negative value e, sendObjects or recvObjects returns e itself; when it
\* returns a non-negative multiple k*objSize, the helper returns k.
C16_Propagation ==
    [][ /\ (last'.op = "sendObjects") =>
              \A c \in Chans : chan[c].state = "live" =>
                 \A n \in Counts, z \in ObjSizes : C16_Send(c, n, z)
        /\ (last'.op = "recvObjects") =>
              \A c \in Chans : chan[c].state = "live" =>
                 \A n \in Counts, z \in ObjSizes : C16_Recv(c, n, z) ]_vars

C16_Witness ==
    /\ last.op = "recvObjects" /\ last.cond = "error" /\ last.ret = -EBADF
    /\ ~aborted
    /\ chan["A"].state = "live" /\ chan["A"].mReceiveFd = -1
    /\ chan["B"].state = "dead"

\* The descriptor numbers the fields of c hold
C18_Held(c) == {chan[c].mSendFd, chan[c].mReceiveFd} \cap FdNums

\* Every open descriptor has exactly one owner.
C18_NoLeak ==
    \A n \in FdNums :
        IsOpen(fds, n) => Cardinality({h \in Holders : HeldFd(h) = n}) = 1

C18_Destroy(c) ==
    Destroy(c)
    => ( /\ \A n \in C18_Held(c) : IsOpen(fds, n)
         /\ fds' = [n \in FdNums |-> IF n \in C18_Held(c) THEN "free" ELSE fds[n]]
         /\ (c # "A") => ( /\ chan[c].mSendFd = -1
                           /\ \A n \in C18_Held(c) : fds[n] = "rx" ) )

C18_Serialize(c, room) ==
    (chan[c].mReceiveFd >= 0 /\ WriteToParcel(c, room))
    => ( /\ IsOpen(fds, chan[c].mReceiveFd)
         /\ fds'[chan[c].mReceiveFd] = "free"
         /\ chan[c].mReceiveFd \notin C18_Held(c)'
         /\ chan'[c].mSendFd = chan[c].mSendFd )

\* C18 (exactly-once release): every open descriptor has exactly one owner;
\* ~BitTube closes exactly the descriptors its fields hold, each of them open
\* until then, and nothing else; writeToParcel closes the receive descriptor,
\* open until then, and forgets it; an object built from a Parcel closes
\* descriptors of the receive end only.
C18_ExactlyOnce ==
    [][ /\ C18_NoLeak /\ C18_NoLeak'
        /\ (last'.op = "destroy") => \A c \in Chans : C18_Destroy(c)
        /\ (last'.op = "writeToParcel") =>
              \A c \in Chans, room \in BOOLEAN : C18_Serialize(c, room) ]_vars

C18_Witness ==
    /\ last.op = "destroy"
    /\ chan["A"].state = "dead" /\ chan["B"].state = "none"
    /\ parcel >= 0
    /\ {n \in FdNums : IsOpen(fds, n)} = {parcel}

\* At least two objects hold a descriptor of the receive end.
C20_Shared == Cardinality({c \in Tubes : HoldsRx(c)}) >= 2

C20_Recv(c) ==
    (C20_Shared /\ HoldsRx(c) /\ queue # <<>> /\ RecvObjects(c, MaxCount, 1))
    => ( /\ ~aborted'
         /\ last'.id = Head(queue).id
         /\ last'.id = delivered + 1
         /\ delivered' = delivered + 1
         /\ last'.buf = Head(queue).orig
         /\ last'.ret = Len(Head(queue).orig)
         /\ queue' = Tail(queue)
         /\ \A i \in 1 .. Len(queue') : queue'[i].id > last'.id )

\* C20 (several owners of the receive end): while two or more objects hold a
\* descriptor of the receive end, a recvObjects by any of them takes the oldest
\* queued datagram whole and removes it, so that no other call returns it, and
\* the datagrams handed out, to whichever owner, follow the send order.
C20_SharedReceive ==
    [][ (last'.op = "recvObjects" /\ queue # <<>>) =>
           \A c \in Tubes : C20_Recv(c) ]_vars

C20_Witness ==
    /\ last.op = "recvObjects" /\ last.cond = "data" /\ ~aborted
    /\ HoldsRx("B") /\ HoldsRx("C") /\ chan["A"].mReceiveFd = -1
    /\ last.id = 2 /\ delivered = 2
    /\ Len(last.buf) = 2 /\ last.buf = last.orig

\* Every system call of the thread ends the call unless it was interrupted; a
\* receive that finds nothing queued returns 0 and a send that finds the
\* buffer full returns -EAGAIN, both at once.
C15_Immediate ==
    [][ (thr.pc = "io" /\ thr' # thr)
        => /\ (thr'.pc # "idle") => (SyscallIntr /\ thr'.intr = thr.intr + 1)
           /\ (SyscallRecv /\ KRecv(thr.fd, thr.size).cond = "wouldblock")
                 => (thr'.pc = "idle" /\ last'.op = "read" /\ last'.ret = 0)
           /\ (SyscallSend /\ KSend(thr.fd, thr.size).errno = EAGAIN)
                 => (thr'.pc = "idle" /\ last'.op = "write" /\ last'.ret = -EAGAIN) ]_vars

\* A thread inside write() or read() leaves it.
C15_Returns == (thr.pc # "idle") ~> (thr.pc = "idle")

\* C15 (no operation hangs): every write() and read() returns; the loop is
\* repeated only after EINTR, "nothing queued" and "buffer full" end the call
\* at once with 0 and -EAGAIN, and with at most MaxIntr interruptions per call
\* the thread that keeps running leaves the call.
C15_NoHang == C15_Returns /\ C15_Immediate

C15_Witness ==
    /\ thr.pc = "idle" /\ thr.intr = MaxIntr
    /\ last.op = "read" /\ last.cond = "wouldblock" /\ last.ret = 0
    /\ HoldsRx("A") /\ queue = <<>>

\* The name paired with code v in the table t, NULL when no entry has it
C17_NameOf(t, v) ==
    IF \E i \in 1 .. (Len(t) - 1) : t[i].value = v
    THEN t[CHOOSE i \in 1 .. (Len(t) - 1) : t[i].value = v].literal
    ELSE NULL

\* The code paired with name l in the table t, 0 when no entry has it
C17_CodeOf(t, l) ==
    IF \E i \in 1 .. (Len(t) - 1) : t[i].literal = l
    THEN t[CHOOSE i \in 1 .. (Len(t) - 1) : t[i].literal = l].value
    ELSE 0

\* C17 (label dictionary lookups): a lookup by name returns the code paired
\* with the name, 0 for a name the table lacks; getLabelByKeyCode and
\* getAxisLabel return the name paired with the code, NULL for a code that is
\* negative, out of range or paired with no name.
C17_Lookups ==
    /\ (lbl.fn \in {"getKeyCodeByLabel", "getKeyFlagByLabel", "getAxisByLabel",
                    "getLedByLabel"})
          => (lbl.rcode = C17_CodeOf(lbl.tbl, lbl.name))
    /\ (lbl.fn \in {"getLabelByKeyCode", "getAxisLabel"})
          => (lbl.rname = C17_NameOf(lbl.tbl, lbl.code))

\* The descriptor number the field of the object holds now
C19_Field == IF thr.op = "write" THEN chan[thr.c].mSendFd ELSE chan[thr.c].mReceiveFd

\* C19 (I/O never races with release): the descriptor a thread passes to
\* ::send or ::recv is, when the system call is made, still the one the object
\* holds, and open: no other thread has released it since it was loaded.
C19_NoIoAfterRelease ==
    [][ (thr.pc = "io" /\ thr' # thr /\ thr.fd >= 0)
        => (thr.fd = C19_Field /\ IsOpen(fds, thr.fd)) ]_vars

\* Some object holds a descriptor of the receive end.
C21_Held == \E c \in Tubes : HoldsRx(c)

\* While a descriptor of the receive end is open, the queue holds exactly the
\* datagrams sent and not yet handed out, and a datagram handed to recvObjects
\* arrives whole.
C21_Kept ==
    [][ /\ RxOpen(fds') =>
              ( /\ Len(queue') = nsent' - delivered'
                /\ \A i \in 1 .. Len(queue') : queue'[i].id = delivered' + i )
        /\ (last'.op = "recvObjects" /\ last'.cond = "data" /\ last' # last) =>
              ( /\ ~aborted'
                /\ last'.buf = last'.orig
                /\ last'.ret = Len(last'.orig) ) ]_vars

\* The i-th datagram sent is handed to a recvObjects, unless at some time no
\* object holds the receive end.
C21_Arrives ==
    \A i \in 1 .. MaxSends : (nsent >= i) ~> (delivered >= i \/ ~C21_Held)

\* C21 (eventual delivery): with owners of the receive end that keep calling
\* recvObjects with a buffer of MaxCount records, every batch sendObjects
\* accepted is returned by a recvObjects as long as some object holds the
\* receive end; and no accepted batch leaves the queue otherwise while a
\* descriptor of the receive end is open.
C21_EventualDelivery == C21_Arrives /\ C21_Kept

C21_Witness ==
    /\ last.op = "recvObjects" /\ last.cond = "data" /\ ~aborted
    /\ last.id = MaxSends /\ delivered = MaxSends /\ nsent = MaxSends
    /\ last.xfer /\ last.buf = last.orig
    /\ queue = <<>> /\ C21_Held

====
